---- MODULE Spec2Model ----
(***************************************************************************)
(* Model of tank.deploy.tank_commands.get_entity_commands                  *)
(* (GetEntityCommandsAction): the per-entity-type cache read / refresh /   *)
(* re-read protocol of _load_cached_data, the cache parser                 *)
(* _parse_cached_commands and the driver loop of run_noninteractive.       *)
(*                                                                         *)
(* Python strings are modelled as sequences of one-character strings, so   *)
(* that splitting, lower-casing and formatting are computed character by   *)
(* character as the code computes them.                                    *)
(***************************************************************************)
EXTENDS Integers, Sequences, FiniteSets, TLC

\* ------------------------------------------------------------------------
\* Bounds of the model
\* ------------------------------------------------------------------------

\* longest entity list handed to run_noninteractive
MaxEntities == 3

\* a text of SpecParse is made of at most this many chunks
MaxChunks == 5

\* ------------------------------------------------------------------------
\* Program constants
\* ------------------------------------------------------------------------

_ERROR_CODE_CACHE_OUT_OF_DATE == 1

_ERROR_CODE_CACHE_NOT_FOUND == 2

\* len(tokens) < 5 in _parse_cached_commands
MinTokens == 5

\* ------------------------------------------------------------------------
\* Strings
\* ------------------------------------------------------------------------

UpperCase == <<"A","B","C","D","E","F","G","H","I","J","K","L","M",
               "N","O","P","Q","R","S","T","U","V","W","X","Y","Z">>

LowerCase == <<"a","b","c","d","e","f","g","h","i","j","k","l","m",
               "n","o","p","q","r","s","t","u","v","w","x","y","z">>

\* the lower-case letter of every upper-case letter
ToLower ==
    [c \in {UpperCase[i] : i \in 1..26} |->
        LowerCase[CHOOSE i \in 1..26 : UpperCase[i] = c]]

\* str.lower() on one character
lower_char(c) == IF c \in DOMAIN ToLower THEN ToLower[c] ELSE c

\* str.lower()
lower(s) == [i \in 1..Len(s) |-> lower_char(s[i])]

\* str.startswith(prefix)
startswith(s, prefix) ==
    /\ Len(s) >= Len(prefix)
    /\ SubSeq(s, 1, Len(prefix)) = prefix

Digits == <<"0","1","2","3","4","5","6","7","8","9">>

\* str(n) for a non-negative integer
RECURSIVE str(_)
str(n) ==
    IF n < 10 THEN <<Digits[n + 1]>>
    ELSE str(n \div 10) \o <<Digits[(n % 10) + 1]>>

\* ------------------------------------------------------------------------
\* File names
\* ------------------------------------------------------------------------

_get_cache_name_exact(platform, entity_type) ==
    LET platform_name ==
            IF platform = <<"d","a","r","w","i","n">>
            THEN <<"m","a","c">>
            ELSE IF platform = <<"w","i","n","3","2">>
            THEN <<"w","i","n","d","o","w","s">>
            ELSE IF platform = <<"l","i","n","u","x">>
            THEN <<"l","i","n","u","x">>
            ELSE platform
    IN lower(<<"s","h","o","t","g","u","n","_">> \o platform_name \o <<"_">>
             \o entity_type
             \o <<"_","d","e","t","a","i","l","e","d",".","t","x","t">>)

\* _get_cache_name(platform, entity_type)
_get_cache_name(platform, entity_type) ==
    LET platform_name ==
            IF platform = <<"d","a","r","w","i","n">>
            THEN <<"m","a","c">>
            ELSE IF platform = <<"w","i","n","3","2">>
            THEN <<"w","i","n","d","o","w","s">>
            ELSE IF startswith(platform, <<"l","i","n","u","x">>)
            THEN <<"l","i","n","u","x">>
            ELSE platform
    IN lower(<<"s","h","o","t","g","u","n","_">> \o platform_name \o <<"_">>
             \o entity_type
             \o <<"_","d","e","t","a","i","l","e","d",".","t","x","t">>)

\* _get_env_name(entity_type)
_get_env_name(entity_type) ==
    <<"s","h","o","t","g","u","n","_">> \o lower(entity_type)
        \o <<".","y","m","l">>

\* ------------------------------------------------------------------------
\* The cache parser
\* ------------------------------------------------------------------------

\* str.splitlines() on a byte string: "\n", "\r" and "\r\n" end a line, the
\* terminators are dropped and a terminator at the very end opens no new line
RECURSIVE splitlines_from(_, _, _)
splitlines_from(s, i, cur) ==
    IF i > Len(s)
    THEN IF cur = <<>> THEN <<>> ELSE <<cur>>
    ELSE IF s[i] = "\n"
    THEN <<cur>> \o splitlines_from(s, i + 1, <<>>)
    ELSE IF s[i] = "\r"
    THEN IF i < Len(s) /\ s[i + 1] = "\n"
         THEN <<cur>> \o splitlines_from(s, i + 2, <<>>)
         ELSE <<cur>> \o splitlines_from(s, i + 1, <<>>)
    ELSE splitlines_from(s, i + 1, Append(cur, s[i]))

splitlines_one_line(s) ==
    IF s = <<>> THEN << <<>> >> ELSE splitlines_from(s, 1, <<>>)

splitlines(s) == splitlines_from(s, 1, <<>>)

\* line.split("$"): always at least one token, empty tokens are kept
RECURSIVE split_from(_, _, _, _)
split_from(s, sep, i, cur) ==
    IF i > Len(s)
    THEN <<cur>>
    ELSE IF s[i] = sep
    THEN <<cur>> \o split_from(s, sep, i + 1, <<>>)
    ELSE split_from(s, sep, i + 1, Append(cur, s[i]))

split(s, sep) == split_from(s, sep, 1, <<>>)

RECURSIVE parse_lines_skip(_, _)
parse_lines_skip(lines, commands) ==
    IF lines = <<>>
    THEN [ok |-> TRUE, commands |-> commands, line |-> <<>>]
    ELSE LET tokens == split(Head(lines), "$")
         IN IF Len(tokens) < MinTokens
            THEN parse_lines_skip(Tail(lines), commands)
            ELSE parse_lines_skip(Tail(lines),
                     Append(commands, [name  |-> tokens[1],
                                       title |-> tokens[2],
                                       icon  |-> tokens[5]]))

RECURSIVE parse_lines_icon3(_, _)
parse_lines_icon3(lines, commands) ==
    IF lines = <<>>
    THEN [ok |-> TRUE, commands |-> commands, line |-> <<>>]
    ELSE LET tokens == split(Head(lines), "$")
         IN IF Len(tokens) < MinTokens
            THEN [ok |-> FALSE, commands |-> <<>>, line |-> Head(lines)]
            ELSE parse_lines_icon3(Tail(lines),
                     Append(commands, [name  |-> tokens[1],
                                       title |-> tokens[2],
                                       icon  |-> tokens[4]]))

\* the loop of _parse_cached_commands over the lines still to read, with the
\* commands appended so far; a short line raises TankError and the list built
\* so far is dropped with the frame
RECURSIVE parse_lines(_, _)
parse_lines(lines, commands) ==
    IF lines = <<>>
    THEN [ok |-> TRUE, commands |-> commands, line |-> <<>>]
    ELSE LET line   == Head(lines)
             tokens == split(line, "$")
         IN IF Len(tokens) < MinTokens
            THEN [ok |-> FALSE, commands |-> <<>>, line |-> line]
            ELSE parse_lines(Tail(lines),
                     Append(commands, [name  |-> tokens[1],
                                       title |-> tokens[2],
                                       icon  |-> tokens[5]]))

\* _parse_cached_commands(commands_data)
_parse_cached_commands(commands_data) ==
    parse_lines(splitlines(commands_data), <<>>)

\* ------------------------------------------------------------------------
\* Inputs of the model
\* ------------------------------------------------------------------------

Shot == <<"S","h","o","t">>

Task == <<"T","a","s","k">>

\* the (entity_type, entity_id) tuples a caller may pass
Entities == {<<Shot, 100>>, <<Shot, 101>>, <<Task, 5>>}

\* the value of sys.platform the protocol is run on
Platforms == {<<"l","i","n","u","x","2">>}

\* non-zero exit statuses of the tank command: out of date, not found, other
ExitCodes == {1, 2, 3}

NL == <<"\n">>

LinePublish == <<"p","$","P","$","x","$","y","$","i">>

LineLaunch == <<"l","$","L","$","$","$","j","$","k">>

LineShort == <<"p","$","P","$","i">>

\* cache files the other pipeline configuration may hold
CacheTexts ==
    { <<>>,
      LinePublish,
      LinePublish \o NL \o LineLaunch \o NL,
      LineShort,
      LinePublish \o NL \o LineShort,
      LinePublish \o NL \o NL \o LineLaunch }

\* all sequences over S of length 0..n
SeqsUpTo(S, n) == UNION {[1..k -> S] : k \in 0..n}

\* pieces of cache text: a letter, a separator, four separators (the least
\* a line of five tokens holds) and the two line terminators
Chunks == {<<"a">>, <<"$">>, <<"$","$","$","$">>, <<"\n">>, <<"\r">>}

RECURSIVE Concat(_)
Concat(ss) == IF ss = <<>> THEN <<>> ELSE Head(ss) \o Concat(Tail(ss))

\* every text made of at most MaxChunks chunks
ChunkTexts == {Concat(cs) : cs \in SeqsUpTo(Chunks, MaxChunks)}

\* the entity lists the parser is exercised with: one group
ParseEntities == {<<<<Shot, 100>>, <<Shot, 101>>>>, <<<<Task, 5>>>>}

\* ------------------------------------------------------------------------
\* The external tank command
\* ------------------------------------------------------------------------

\* what a failing shotgun_get_actions has printed (e.output)
ErrorOutput == <<"E","R","R","O","R">>

\* execute_toolkit_command(pc_path, "shotgun_get_actions", ...): returns the
\* output of the process, or raises SubprocessCalledProcessError carrying
\* its non-zero exit status
get_actions_results ==
    {[rc |-> 0, output |-> c] : c \in CacheTexts}
        \cup {[rc |-> r, output |-> ErrorOutput] : r \in ExitCodes}

\* execute_toolkit_command(pc_path, "shotgun_cache_actions", ...)
cache_actions_results ==
    {[rc |-> r, output |-> <<>>] : r \in {0} \cup ExitCodes}

\* ------------------------------------------------------------------------
\* State
\* ------------------------------------------------------------------------

VARIABLES
    platform,             \* sys.platform
    entities,             \* parameters["entities"]
    gi,                   \* index of the group the for loop is at (0: none)
    pc,                   \* position in run_noninteractive
    calls,                \* external calls made for the current group
    cache_content,        \* value returned by _load_cached_data
    commands_per_entity,  \* the mapping under construction
    error,                \* TankError logged for the current group, or ""
    outcome,              \* per finished group: "ok" or "failed"
    args,                 \* command line args of run_interactive
    source_path,          \* MaxPubPublishFile.execute: the file to copy
    target_path,          \* MaxPubPublishFile.execute: where to copy it
    fs,                   \* the files and directories on disk
    syscalls              \* library calls made by MaxPubPublishFile.execute

vars == <<platform, entities, gi, pc, calls, cache_content,
          commands_per_entity, error, outcome, args,
          source_path, target_path, fs, syscalls>>

\* the variables of MaxPubPublishFile.execute
hook_vars == <<source_path, target_path, fs, syscalls>>

groupby_partition(es) ==
    LET firsts == {i \in 1..Len(es) : \A j \in 1..(i - 1) : es[j][1] /= es[i][1]}
        nth(k) == CHOOSE i \in firsts :
                      Cardinality({j \in firsts : j < i}) = k - 1
        same(t) == {i \in 1..Len(es) : es[i][1] = t}
        item(t, n) == es[CHOOSE i \in same(t) :
                            Cardinality({j \in same(t) : j < i}) = n - 1]
    IN [k \in 1..Cardinality(firsts) |->
           [key   |-> es[nth(k)][1],
            items |-> [n \in 1..Cardinality(same(es[nth(k)][1])) |->
                          item(es[nth(k)][1], n)]]]

\* itertools.groupby(entities, operator.itemgetter(0)): one group per
\* maximal run of consecutive entities with the same type
RECURSIVE groupby(_)
groupby(es) ==
    IF es = <<>> THEN <<>>
    ELSE LET e    == Head(es)
             rest == groupby(Tail(es))
         IN IF rest /= <<>> /\ Head(rest).key = e[1]
            THEN <<[key |-> e[1], items |-> <<e>> \o Head(rest).items]>>
                     \o Tail(rest)
            ELSE <<[key |-> e[1], items |-> <<e>>]>> \o rest

per_entity_type == groupby(entities)

entity_type == per_entity_type[gi].key

entities_of_type == per_entity_type[gi].items

cache_name == _get_cache_name(platform, entity_type)

env_name == _get_env_name(entity_type)

\* ------------------------------------------------------------------------
\* _load_cached_data, as the decision taken when the call at `at` ends
\* with exit status rc
\* ------------------------------------------------------------------------

ErrGet == "Error while trying to get the cache content."

ErrUpdate == "Failed to update the cache."

ErrReget == "Failed to get the content of the updated cache."

ErrParse == "The cache is missing tokens on the line"

Goto(next) == [do |-> next, error |-> ""]

Raise(message) == [do |-> "raise", error |-> message]

\* exit statuses of shotgun_get_actions that ask for a cache update
Stale == {_ERROR_CODE_CACHE_OUT_OF_DATE, _ERROR_CODE_CACHE_NOT_FOUND}

after_get_actions_always_update(rc) ==
    IF rc \in Stale \cup {0} THEN Goto("shotgun_cache_actions")
    ELSE Raise(ErrGet)

after_get_actions_update_on_any(rc) ==
    IF rc = 0 THEN Goto("return") ELSE Goto("shotgun_cache_actions")

\* lines 195-205: the first shotgun_get_actions
after_get_actions(rc) ==
    IF rc = 0 THEN Goto("return")
    ELSE IF rc \notin Stale THEN Raise(ErrGet)
    ELSE Goto("shotgun_cache_actions")

after_cache_actions_no_reread(rc) ==
    IF rc = 0 THEN Goto("return") ELSE Goto("shotgun_cache_actions_old")

after_cache_actions_no_fallback(rc) ==
    IF rc = 0 THEN Goto("shotgun_get_actions_again") ELSE Raise(ErrUpdate)

\* lines 208-225: shotgun_cache_actions with the entity id
after_cache_actions(rc) ==
    IF rc = 0 THEN Goto("shotgun_get_actions_again")
    ELSE Goto("shotgun_cache_actions_old")

after_cache_actions_old_ignore(rc) == Goto("shotgun_get_actions_again")

\* lines 226-233: shotgun_cache_actions without the entity id
after_cache_actions_old(rc) ==
    IF rc = 0 THEN Goto("shotgun_get_actions_again")
    ELSE Raise(ErrUpdate)

after_get_actions_again_retry(rc) ==
    IF rc = 0 THEN Goto("return")
    ELSE IF rc \in Stale THEN Goto("shotgun_cache_actions")
    ELSE Raise(ErrReget)

\* lines 235-242: the second shotgun_get_actions
after_get_actions_again(rc) ==
    IF rc = 0 THEN Goto("return") ELSE Raise(ErrReget)

_load_cached_data(at, rc) ==
    CASE at = "shotgun_get_actions"       -> after_get_actions(rc)
      [] at = "shotgun_cache_actions"     -> after_cache_actions(rc)
      [] at = "shotgun_cache_actions_old" -> after_cache_actions_old(rc)
      [] at = "shotgun_get_actions_again" -> after_get_actions_again(rc)

except_TankError_reraise == "raise"

\* except TankError in run_noninteractive: log.error, then the next group
except_TankError == "for"

assign_commands_keep(mapping, group, commands) ==
    LET keys == {group[i] : i \in 1..Len(group)}
    IN [e \in DOMAIN mapping \cup keys |->
            IF e \in DOMAIN mapping THEN mapping[e] ELSE commands]

assign_commands_first(mapping, group, commands) ==
    [e \in DOMAIN mapping \cup {group[1]} |->
        IF e = group[1] THEN commands ELSE mapping[e]]

\* for entity in entities_of_type: commands_per_entity[entity] = commands
assign_commands(mapping, group, commands) ==
    LET keys == {group[i] : i \in 1..Len(group)}
    IN [e \in DOMAIN mapping \cup keys |->
            IF e \in keys THEN commands ELSE mapping[e]]

\* lines 120-129 of run_noninteractive, run on the content that
\* _load_cached_data returned: parse it and give the commands to every
\* entity of the group, or log the TankError of the parser
parse_and_assign(content) ==
    LET parsed == _parse_cached_commands(content)
    IN IF parsed.ok
       THEN [pc       |-> "for",
             commands |-> assign_commands(commands_per_entity,
                                          entities_of_type, parsed.commands),
             error    |-> "",
             outcome  |-> "ok"]
       ELSE [pc       |-> except_TankError,
             commands |-> commands_per_entity,
             error    |-> ErrParse,
             outcome  |-> "failed"]

\* what run_noninteractive does once the call at `at` has ended with r, up
\* to its next external call
AfterCall(at, cmd, call_args, r) ==
    LET d == _load_cached_data(at, r.rc)
        p == parse_and_assign(r.output)
    IN /\ calls' = Append(calls, [cmd |-> cmd, args |-> call_args,
                                  rc |-> r.rc, output |-> r.output])
       /\ IF d.do = "return"
          THEN /\ cache_content' = r.output
               /\ pc' = p.pc
               /\ commands_per_entity' = p.commands
               /\ error' = p.error
               /\ outcome' = Append(outcome, p.outcome)
          ELSE IF d.do = "raise"
          THEN /\ pc' = except_TankError
               /\ error' = d.error
               /\ outcome' = Append(outcome, "failed")
               /\ UNCHANGED <<cache_content, commands_per_entity>>
          ELSE /\ pc' = d.do
               /\ UNCHANGED <<cache_content, commands_per_entity, error,
                              outcome>>
       /\ UNCHANGED <<platform, entities, gi, args, hook_vars>>

\* ------------------------------------------------------------------------
\* Actions
\* ------------------------------------------------------------------------

\* MaxPubPublishFile.execute is not running
NoHook ==
    /\ source_path = <<>>
    /\ target_path = <<>>
    /\ fs = <<>>
    /\ syscalls = <<>>

Init ==
    /\ platform \in Platforms
    /\ entities \in SeqsUpTo(Entities, MaxEntities)
    /\ gi = 0
    /\ pc = "for"
    /\ calls = <<>>
    /\ cache_content = <<>>
    /\ commands_per_entity = <<>>
    /\ error = ""
    /\ outcome = <<>>
    /\ args = <<>>
    /\ NoHook

ForNext_early ==
    /\ pc \in {"for", "shotgun_cache_actions", "shotgun_get_actions_again"}
    /\ gi < Len(per_entity_type)
    /\ gi' = gi + 1
    /\ pc' = "shotgun_get_actions"
    /\ calls' = <<>>
    /\ cache_content' = <<>>
    /\ error' = ""
    /\ UNCHANGED <<platform, entities, commands_per_entity, outcome, args,
                   hook_vars>>

\* for (entity_type, entities_of_type) in per_entity_type: the next group
ForNext ==
    /\ pc = "for"
    /\ gi < Len(per_entity_type)
    /\ gi' = gi + 1
    /\ pc' = "shotgun_get_actions"
    /\ calls' = <<>>
    /\ cache_content' = <<>>
    /\ error' = ""
    /\ UNCHANGED <<platform, entities, commands_per_entity, outcome, args,
                   hook_vars>>

\* the first read of the cache
GetActions ==
    /\ pc = "shotgun_get_actions"
    /\ \E r \in get_actions_results :
           AfterCall("shotgun_get_actions", "shotgun_get_actions",
                     <<cache_name, env_name>>, r)

CacheActions_last_id ==
    /\ pc = "shotgun_cache_actions"
    /\ \E r \in cache_actions_results :
           AfterCall("shotgun_cache_actions", "shotgun_cache_actions",
                     <<entity_type, cache_name,
                       str(entities_of_type[Len(entities_of_type)][2])>>,
                     r)

\* the cache update with a sample entity id
CacheActions ==
    /\ pc = "shotgun_cache_actions"
    /\ \E r \in cache_actions_results :
           AfterCall("shotgun_cache_actions", "shotgun_cache_actions",
                     <<entity_type, cache_name, str(entities_of_type[1][2])>>,
                     r)

\* the cache update without an entity id
CacheActionsOld ==
    /\ pc = "shotgun_cache_actions_old"
    /\ \E r \in cache_actions_results :
           AfterCall("shotgun_cache_actions_old", "shotgun_cache_actions",
                     <<entity_type, cache_name>>, r)

\* the read of the updated cache
GetActionsAgain ==
    /\ pc = "shotgun_get_actions_again"
    /\ \E r \in get_actions_results :
           AfterCall("shotgun_get_actions_again", "shotgun_get_actions",
                     <<cache_name, env_name>>, r)

\* return commands_per_entity
Return ==
    /\ pc = "for"
    /\ gi = Len(per_entity_type)
    /\ pc' = "return"
    /\ UNCHANGED <<platform, entities, gi, calls, cache_content,
                   commands_per_entity, error, outcome, args, hook_vars>>

Next ==
    \/ ForNext
    \/ GetActions
    \/ CacheActions
    \/ CacheActionsOld
    \/ GetActionsAgain
    \/ Return

Spec == Init /\ [][Next]_vars

\* ------------------------------------------------------------------------
\* run_interactive(log, args): the command line accessor
\* ------------------------------------------------------------------------

MaxArgs == 3

\* words of a command line
ArgWords == {"Shot", "100", "--pc_path", "/studio/pc"}

ErrInteractive == "This Action does not support command line access"

InitInteractive ==
    /\ platform \in Platforms
    /\ entities = <<>>
    /\ gi = 0
    /\ pc = "run_interactive"
    /\ calls = <<>>
    /\ cache_content = <<>>
    /\ commands_per_entity = <<>>
    /\ error = ""
    /\ outcome = <<>>
    /\ args \in SeqsUpTo(ArgWords, MaxArgs)
    /\ NoHook

RunInteractive_usage ==
    /\ pc = "run_interactive"
    /\ IF args = <<>>
       THEN pc' = "raise" /\ error' = ErrInteractive
       ELSE pc' = "return" /\ error' = ""
    /\ UNCHANGED <<platform, entities, gi, calls, cache_content,
                   commands_per_entity, outcome, args, hook_vars>>

\* raise TankError("This Action does not support command line access")
RunInteractive ==
    /\ pc = "run_interactive"
    /\ pc' = "raise"
    /\ error' = ErrInteractive
    /\ UNCHANGED <<platform, entities, gi, calls, cache_content,
                   commands_per_entity, outcome, args, hook_vars>>

NextInteractive == RunInteractive

SpecInteractive == InitInteractive /\ [][NextInteractive]_vars

\* ------------------------------------------------------------------------
\* MaxPubPublishFile.execute(source_path, target_path)
\* ------------------------------------------------------------------------

\* 0444, the mode given to os.chmod
Mode0444 == 292

\* paths, as sequences of names: /a/f, /b and /b/f
HookPaths == {<<"a","f">>, <<"b">>, <<"b","f">>}

Absent == [kind |-> "absent", content |-> "", mode |-> 0]

File(content, mode) == [kind |-> "file", content |-> content, mode |-> mode]

Dir(mode) == [kind |-> "dir", content |-> "", mode |-> mode]

\* files with two contents and the modes 0644 and 0444
FileEntries == {File(c, m) : c \in {"x", "y"}, m \in {420, 292}}

\* the disks: /b is absent, a file or a directory of mode 0755, /a/f and
\* /b/f are absent or files, and /b/f exists only in a directory
FileSystems ==
    {f \in [HookPaths -> FileEntries \cup {Absent, Dir(493)}] :
        /\ f[<<"a","f">>].kind /= "dir"
        /\ f[<<"b","f">>].kind /= "dir"
        /\ f[<<"b","f">>].kind = "file" => f[<<"b">>].kind = "dir"}

\* os.path.exists
exists(f, path) == path \in DOMAIN f /\ f[path].kind /= "absent"

\* os.path.isdir
isdir(f, path) == path \in DOMAIN f /\ f[path].kind = "dir"

\* os.path.basename
basename(path) == <<path[Len(path)]>>

\* os.path.join
join(path, name) == path \o name

\* os.path.dirname
dirname(path) == SubSeq(path, 1, Len(path) - 1)

\* the outcomes of shutil.copy(src, dst): a target that is a directory
\* stands for the file of the source's name in it; the copy raises when
\* source and target are the same file, when the source is not a file or
\* when the target cannot be opened; otherwise it writes the content and
\* then the mode of the source, or raises for a reason of the system (no
\* permission, as on a read-only target for a user who is not privileged,
\* or disk full), before or after it has truncated the target
shutil_copy(f, src, dst) ==
    LET dst1     == IF isdir(f, dst) THEN join(dst, basename(src)) ELSE dst
        src_file == exists(f, src) /\ f[src].kind = "file"
        samefile == exists(f, src) /\ src = dst1
        dst_open == /\ dst1 \in DOMAIN f
                    /\ f[dst1].kind /= "dir"
                    /\ dirname(dst1) = <<>> \/ isdir(f, dirname(dst1))
        written   == [f EXCEPT ![dst1] = File(f[src].content, f[src].mode)]
        truncated == [f EXCEPT ![dst1] =
                         File("", IF f[dst1].kind = "file"
                                  THEN f[dst1].mode ELSE 420)]
    IN IF samefile \/ ~src_file \/ ~dst_open
       THEN {[ok |-> FALSE, fs |-> f]}
       ELSE {[ok |-> TRUE, fs |-> written],
             [ok |-> FALSE, fs |-> f],
             [ok |-> FALSE, fs |-> truncated]}

\* the outcomes of os.chmod(path, mode): it sets the mode of what is at
\* path, or raises (nothing there, or not the owner)
os_chmod(f, path, mode) ==
    IF ~exists(f, path)
    THEN {[ok |-> FALSE, fs |-> f]}
    ELSE {[ok |-> TRUE, fs |-> [f EXCEPT ![path].mode = mode]],
          [ok |-> FALSE, fs |-> f]}

InitHook ==
    /\ platform \in Platforms
    /\ entities = <<>>
    /\ gi = 0
    /\ pc = "shutil.copy"
    /\ calls = <<>>
    /\ cache_content = <<>>
    /\ commands_per_entity = <<>>
    /\ error = ""
    /\ outcome = <<>>
    /\ args = <<>>
    /\ source_path \in HookPaths
    /\ target_path \in HookPaths
    /\ fs \in FileSystems
    /\ syscalls = <<>>

\* shutil.copy(source_path, target_path)
Copy ==
    /\ pc = "shutil.copy"
    /\ \E r \in shutil_copy(fs, source_path, target_path) :
           /\ fs' = r.fs
           /\ syscalls' = Append(syscalls, [call |-> "shutil.copy",
                                            path |-> target_path,
                                            ok   |-> r.ok])
           /\ pc' = IF r.ok THEN "os.chmod" ELSE "raise"
    /\ UNCHANGED <<platform, entities, gi, calls, cache_content,
                   commands_per_entity, error, outcome, args,
                   source_path, target_path>>

\* os.chmod(target_path, 0444)
Chmod ==
    /\ pc = "os.chmod"
    /\ \E r \in os_chmod(fs, target_path, Mode0444) :
           /\ fs' = r.fs
           /\ syscalls' = Append(syscalls, [call |-> "os.chmod",
                                            path |-> target_path,
                                            ok   |-> r.ok])
           /\ pc' = IF r.ok THEN "return" ELSE "raise"
    /\ UNCHANGED <<platform, entities, gi, calls, cache_content,
                   commands_per_entity, error, outcome, args,
                   source_path, target_path>>

NextHook ==
    \/ Copy
    \/ Chmod

SpecHook == InitHook /\ [][NextHook]_vars

\* ------------------------------------------------------------------------
\* The file names on several platforms: run_noninteractive on one entity,
\* with sys.platform drawn from NamePlatforms
\* ------------------------------------------------------------------------

CustomEntity01 == <<"C","u","s","t","o","m","E","n","t","i","t","y","0","1">>

NameEntities == {<<Shot, 100>>, <<Task, 5>>, <<CustomEntity01, 7>>}

\* values of sys.platform
NamePlatforms ==
    {<<"d","a","r","w","i","n">>, <<"w","i","n","3","2">>,
     <<"l","i","n","u","x","2">>, <<"l","i","n","u","x","3">>,
     <<"c","y","g","w","i","n">>, <<"s","u","n","o","s","5">>}

InitNames ==
    /\ platform \in NamePlatforms
    /\ entities \in {<<e>> : e \in NameEntities}
    /\ gi = 0
    /\ pc = "for"
    /\ calls = <<>>
    /\ cache_content = <<>>
    /\ commands_per_entity = <<>>
    /\ error = ""
    /\ outcome = <<>>
    /\ args = <<>>
    /\ NoHook

SpecNames == InitNames /\ [][Next]_vars

\* ------------------------------------------------------------------------
\* The parser on every small text: run_noninteractive on one group whose
\* first read succeeds with any text of ChunkTexts
\* ------------------------------------------------------------------------

InitParse ==
    /\ Init
    /\ entities \in ParseEntities

GetActionsText ==
    /\ pc = "shotgun_get_actions"
    /\ \E text \in ChunkTexts :
           AfterCall("shotgun_get_actions", "shotgun_get_actions",
                     <<cache_name, env_name>>, [rc |-> 0, output |-> text])

NextParse ==
    \/ ForNext
    \/ GetActionsText
    \/ Return

SpecParse == InitParse /\ [][NextParse]_vars

\* ------------------------------------------------------------------------
\* What the cache format says of a text, by counting positions
\* ------------------------------------------------------------------------

\* the characters of s at the positions in idx, in order
Pick(s, idx) ==
    [n \in 1..Cardinality(idx) |->
        s[CHOOSE i \in idx : Cardinality({j \in idx : j <= i}) = n]]

\* position i holds a line terminator character
IsEol(s, i) == s[i] \in {"\n", "\r"}

\* a line ends at position i: at "\n", or at a "\r" that no "\n" follows
IsBreak(s, i) ==
    \/ s[i] = "\n"
    \/ s[i] = "\r" /\ ~(i < Len(s) /\ s[i + 1] = "\n")

\* number of lines of s: one per line end, and one more for characters
\* after the last line end
NumLines(s) ==
    Cardinality({i \in 1..Len(s) : IsBreak(s, i)})
        + (IF Len(s) > 0 /\ ~IsEol(s, Len(s)) THEN 1 ELSE 0)

\* the k-th line of s, k in 1..NumLines(s)
LineOf(s, k) ==
    Pick(s, {i \in 1..Len(s) :
                /\ ~IsEol(s, i)
                /\ Cardinality({j \in 1..(i - 1) : IsBreak(s, j)}) = k - 1})

\* number of "$"-delimited tokens of a line
NumTokens(line) == Cardinality({i \in 1..Len(line) : line[i] = "$"}) + 1

\* the token of a line at position k, counted from 0 as the code does
TokenOf(line, k) ==
    Pick(line, {i \in 1..Len(line) :
                   /\ line[i] /= "$"
                   /\ Cardinality({j \in 1..(i - 1) : line[j] = "$"}) = k})

\* every line of s has the five tokens a record needs
WellFormed(s) ==
    \A k \in 1..NumLines(s) : NumTokens(LineOf(s, k)) >= MinTokens

\* the record the format assigns to a line
CommandOf(line) ==
    [name  |-> TokenOf(line, 0),
     title |-> TokenOf(line, 1),
     icon  |-> TokenOf(line, 4)]

\* ------------------------------------------------------------------------
\* Vocabulary of the claims
\* ------------------------------------------------------------------------

\* the entities of the i-th group
ItemsOf(i) ==
    {per_entity_type[i].items[n] : n \in 1..Len(per_entity_type[i].items)}

\* the current group has ended (its calls are still in `calls`)
GroupEnded == gi >= 1 /\ Len(outcome) = gi

IsGet(c) == c.cmd = "shotgun_get_actions"

IsNew(c) == c.cmd = "shotgun_cache_actions" /\ Len(c.args) = 3

IsOld(c) == c.cmd = "shotgun_cache_actions" /\ Len(c.args) = 2

\* ------------------------------------------------------------------------
\* C7, C8: the parser (checked under SpecParse)
\* ------------------------------------------------------------------------

\* C7: when every one of the N lines of the text that was read splits on "$"
\* into at least five tokens, parsing succeeds and every entity of the group
\* gets exactly N records, in line order, the k-th with name, title and icon
\* equal to tokens 0, 1 and 4 of the k-th line.
C7_ParseWellFormed ==
    (GroupEnded /\ WellFormed(calls[1].output)) =>
        LET text == calls[1].output
        IN /\ outcome[gi] = "ok"
           /\ error = ""
           /\ \A e \in ItemsOf(gi) :
                 /\ e \in DOMAIN commands_per_entity
                 /\ Len(commands_per_entity[e]) = NumLines(text)
                 /\ \A k \in 1..NumLines(text) :
                       commands_per_entity[e][k] = CommandOf(LineOf(text, k))

\* two well-formed lines that differ, in order, with tokens besides 0, 1, 4
C7_Witness ==
    /\ GroupEnded
    /\ WellFormed(calls[1].output)
    /\ NumLines(calls[1].output) = 2
    /\ LineOf(calls[1].output, 1) /= LineOf(calls[1].output, 2)
    /\ NumTokens(LineOf(calls[1].output, 1)) > MinTokens
    /\ \E e \in DOMAIN commands_per_entity :
           commands_per_entity[e][1] /= commands_per_entity[e][2]

\* C8: when some line of the text that was read, wherever it is and blank
\* lines included, has fewer than five tokens, parsing fails with the
\* TankError of the parser, no command list comes out of it and none of the
\* group's entities is added to the result.
C8_ParseMalformed ==
    (GroupEnded /\ ~WellFormed(calls[1].output)) =>
        /\ outcome[gi] = "failed"
        /\ error = ErrParse
        /\ pc \in {"for", "return"}
        /\ DOMAIN commands_per_entity = {}

\* a well-formed first line, then a short one
C8_Witness ==
    /\ GroupEnded
    /\ NumLines(calls[1].output) = 2
    /\ NumTokens(LineOf(calls[1].output, 1)) >= MinTokens
    /\ NumTokens(LineOf(calls[1].output, 2)) < MinTokens
    /\ outcome[gi] = "failed"
    /\ pc = "return"

\* ------------------------------------------------------------------------
\* C1-C6, C9, C10: the protocol (checked under Spec)
\* ------------------------------------------------------------------------

InputEntities == {entities[i] : i \in 1..Len(entities)}

TypesOf(es) == {es[i][1] : i \in 1..Len(es)}

\* number of maximal runs of consecutive entities of one type
NumRuns(es) ==
    Cardinality({i \in 1..Len(es) : i = 1 \/ es[i][1] /= es[i - 1][1]})

\* the entities of every type stand next to each other
Contiguous(es) ==
    \A i, j, k \in 1..Len(es) :
        (i < j /\ j < k /\ es[i][1] = es[k][1]) => es[j][1] = es[i][1]

\* the commands the cache format gives for a well-formed text
CommandsOf(text) == [k \in 1..NumLines(text) |-> CommandOf(LineOf(text, k))]

\* what C1 says up to the fate of a failed group's entities: nothing
\* escapes run_noninteractive, every group that was started has its own
\* first shotgun_get_actions call, and at the return every run of the input
\* has been processed and the entities of the groups that succeeded are keys
C1_Isolation ==
    /\ pc /= "raise"
    /\ (gi >= 1 /\ pc /= "shotgun_get_actions") =>
          /\ calls /= <<>>
          /\ IsGet(calls[1])
          /\ calls[1].args = <<_get_cache_name(platform, per_entity_type[gi].key),
                               _get_env_name(per_entity_type[gi].key)>>
    /\ pc = "return" =>
          /\ gi = NumRuns(entities)
          /\ Len(outcome) = NumRuns(entities)
          /\ \A i \in 1..Len(outcome) :
                outcome[i] = "ok" => ItemsOf(i) \subseteq DOMAIN commands_per_entity

\* C1 as stated: a failed group never stops the later ones, the call
\* returns, and the entities of a failed group are absent from the mapping.
C1_Original ==
    /\ C1_Isolation
    /\ pc = "return" =>
          \A i \in 1..Len(outcome) :
              outcome[i] = "failed" =>
                  ItemsOf(i) \cap DOMAIN commands_per_entity = {}

\* C1 (amended): a failed group never stops the later ones, the call
\* returns, and an entity of a failed group is absent from the mapping
\* unless another group, which succeeded, holds the same entity.
C1_FailureIsolated ==
    /\ C1_Isolation
    /\ pc = "return" =>
          \A i \in 1..Len(outcome) :
              outcome[i] = "failed" =>
                  \A e \in ItemsOf(i) \cap DOMAIN commands_per_entity :
                      \E j \in 1..Len(outcome) :
                          j /= i /\ outcome[j] = "ok" /\ e \in ItemsOf(j)

\* a failed group followed by one that succeeded
C1_Witness ==
    /\ pc = "return"
    /\ \E i, j \in 1..Len(outcome) :
          /\ i < j
          /\ outcome[i] = "failed"
          /\ outcome[j] = "ok"
          /\ ItemsOf(i) \cap DOMAIN commands_per_entity = {}
          /\ ItemsOf(j) \subseteq DOMAIN commands_per_entity

\* C2: when the first shotgun_get_actions of a group succeeds it stays the
\* only external call of the group, and its output is what is parsed: the
\* group succeeds with the records of that text, or fails on its short line.
C2_FirstReadSucceeds ==
    (gi >= 1 /\ calls /= <<>> /\ calls[1].rc = 0) =>
        /\ Len(calls) = 1
        /\ IsGet(calls[1])
        /\ pc \in {"for", "return"}
        /\ GroupEnded
        /\ cache_content = calls[1].output
        /\ IF WellFormed(calls[1].output)
           THEN /\ outcome[gi] = "ok"
                /\ \A e \in ItemsOf(gi) :
                      /\ e \in DOMAIN commands_per_entity
                      /\ commands_per_entity[e] = CommandsOf(calls[1].output)
           ELSE /\ outcome[gi] = "failed"
                /\ error = ErrParse

C2_Witness ==
    /\ Len(calls) = 1
    /\ calls[1].rc = 0
    /\ pc = "return"
    /\ outcome[gi] = "ok"
    /\ \E e \in ItemsOf(gi) : Len(commands_per_entity[e]) = 2

\* C3: after a first read that failed with exit code 1 or 2 the next call
\* is shotgun_cache_actions with an entity id of the group; the call without
\* entity id is made if and only if that one failed, and right after it.
C3_UpdateOrder ==
    /\ (calls /= <<>> /\ calls[1].rc \in Stale) =>
          IF Len(calls) = 1
          THEN pc = "shotgun_cache_actions"
          ELSE /\ IsNew(calls[2])
               /\ \E e \in ItemsOf(gi) : calls[2].args[3] = str(e[2])
    /\ \A i \in 1..Len(calls) :
          IsOld(calls[i]) =>
              i = 3 /\ IsNew(calls[2]) /\ calls[2].rc /= 0
    /\ (Len(calls) >= 2 /\ IsNew(calls[2]) /\ calls[2].rc /= 0) =>
          IF Len(calls) = 2
          THEN pc = "shotgun_cache_actions_old"
          ELSE IsOld(calls[3])
    /\ (Len(calls) >= 2 /\ IsNew(calls[2]) /\ calls[2].rc = 0) =>
          pc /= "shotgun_cache_actions_old"

C3_Witness ==
    /\ Len(calls) = 4
    /\ calls[1].rc = _ERROR_CODE_CACHE_NOT_FOUND
    /\ IsNew(calls[2]) /\ calls[2].rc /= 0
    /\ IsOld(calls[3]) /\ calls[3].rc = 0

\* C4: a first read that fails with an exit code other than 1 and 2 stays
\* the only external call of the group; the group fails at once with the
\* error of the first read and the step adds nothing to the result.
C4_OtherExitCode ==
    [][(calls' /= <<>> /\ calls'[1].rc \notin Stale \cup {0}) =>
          /\ Len(calls') = 1
          /\ pc' \in {"for", "return"}
          /\ Len(outcome') = gi'
          /\ outcome'[gi'] = "failed"
          /\ error' = ErrGet
          /\ commands_per_entity' = commands_per_entity]_vars

\* the failed group is not the first: the result held entries already
C4_Witness ==
    /\ Len(calls) = 1
    /\ calls[1].rc = 3
    /\ pc = "return"
    /\ outcome[gi] = "failed"
    /\ DOMAIN commands_per_entity /= {}

\* C5 as stated: in the returned mapping the entities of one type are all
\* present or all absent, and those present have one and the same list, for
\* every input list.
C5_Original ==
    pc = "return" =>
        \A e1, e2 \in InputEntities :
            e1[1] = e2[1] =>
                /\ e1 \in DOMAIN commands_per_entity
                      <=> e2 \in DOMAIN commands_per_entity
                /\ e1 \in DOMAIN commands_per_entity =>
                      commands_per_entity[e1] = commands_per_entity[e2]

\* C5 (amended): the same, for input lists in which the entities of every
\* type are contiguous.
C5_SameTypeSameCommands ==
    (pc = "return" /\ Contiguous(entities)) =>
        /\ DOMAIN commands_per_entity \subseteq InputEntities
        /\ \A e1, e2 \in InputEntities :
              e1[1] = e2[1] =>
                  /\ e1 \in DOMAIN commands_per_entity
                        <=> e2 \in DOMAIN commands_per_entity
                  /\ e1 \in DOMAIN commands_per_entity =>
                        commands_per_entity[e1] = commands_per_entity[e2]

C5_Witness ==
    /\ pc = "return"
    /\ Contiguous(entities)
    /\ Cardinality(TypesOf(entities)) = 2
    /\ \E e1, e2 \in DOMAIN commands_per_entity :
          e1 /= e2 /\ e1[1] = e2[1] /\ commands_per_entity[e1] /= <<>>

\* the distinct command lists of the mapping, by content
Values == {commands_per_entity[e] : e \in DOMAIN commands_per_entity}

\* the entity types that have a key in the mapping
KeyTypes == {e[1] : e \in DOMAIN commands_per_entity}

\* C6 as stated: K types in contiguous runs give exactly K distinct command
\* lists, each assigned to every entity of its type.
C6_Original ==
    (pc = "return" /\ Contiguous(entities)) =>
        /\ Cardinality(Values) = Cardinality(TypesOf(entities))
        /\ \A e1, e2 \in InputEntities :
              e1[1] = e2[1] =>
                  /\ e1 \in DOMAIN commands_per_entity
                  /\ commands_per_entity[e1] = commands_per_entity[e2]

\* C6 (amended): K types in contiguous runs give at most K distinct command
\* lists, at most one per type whose group succeeded; each is assigned to
\* every entity of its type, and the types whose group failed have no key.
C6_AtMostKValues ==
    (pc = "return" /\ Contiguous(entities)) =>
        /\ Cardinality(Values) <= Cardinality(KeyTypes)
        /\ Cardinality(KeyTypes) <= Cardinality(TypesOf(entities))
        /\ KeyTypes = {per_entity_type[i].key :
                          i \in {n \in 1..Len(outcome) : outcome[n] = "ok"}}
        /\ \A e1, e2 \in InputEntities :
              (e1[1] = e2[1] /\ e1[1] \in KeyTypes) =>
                  /\ e1 \in DOMAIN commands_per_entity
                  /\ commands_per_entity[e1] = commands_per_entity[e2]

\* two types of three entities, two distinct lists
C6_Witness ==
    /\ pc = "return"
    /\ Contiguous(entities)
    /\ Cardinality(InputEntities) = 3
    /\ Cardinality(TypesOf(entities)) = 2
    /\ Cardinality(Values) = 2
    /\ DOMAIN commands_per_entity = InputEntities

\* C9: shotgun_get_actions is called at most twice for a group; the second
\* call comes only after a first read that failed with 1 or 2 and is the
\* last call of the group, whatever its exit code: when it fails, 1 and 2
\* included, the group is aborted with the error of the second read.
C9_NoRetry ==
    /\ Cardinality({i \in 1..Len(calls) : IsGet(calls[i])}) <= 2
    /\ \A i \in 2..Len(calls) :
          IsGet(calls[i]) =>
              /\ i = Len(calls)
              /\ calls[1].rc \in Stale
              /\ pc \in {"for", "return"}
              /\ GroupEnded
              /\ calls[i].rc /= 0 =>
                    outcome[gi] = "failed" /\ error = ErrReget

\* the second read reports the cache out of date again
C9_Witness ==
    /\ Len(calls) >= 3
    /\ IsGet(calls[Len(calls)])
    /\ calls[Len(calls)].rc = _ERROR_CODE_CACHE_OUT_OF_DATE
    /\ pc = "return"
    /\ outcome[gi] = "failed"

\* both cache updates of the current group have failed
BothUpdatesFailed ==
    \E i \in 2..Len(calls) :
        /\ IsOld(calls[i]) /\ calls[i].rc /= 0
        /\ IsNew(calls[i - 1]) /\ calls[i - 1].rc /= 0

\* the group is aborted on the failed updates, with no second read
AbortedOnUpdate ==
    /\ \A i \in 2..Len(calls) : ~IsGet(calls[i])
    /\ pc \in {"for", "return"}
    /\ GroupEnded
    /\ outcome[gi] = "failed"
    /\ error = ErrUpdate

GoodUpdates ==
    {i \in 2..Len(calls) :
        calls[i].cmd = "shotgun_cache_actions" /\ calls[i].rc = 0}

\* C11: after a first read that failed with 1 or 2 and an update that
\* succeeded (with the entity id, or without it after the first update
\* failed) the cache is read again; when that read succeeds with well-formed
\* content the group succeeds and every entity of it is mapped to the
\* records of the second read, never to the output of the failed first one.
C11_RefreshedRead ==
    (gi >= 1 /\ calls /= <<>> /\ calls[1].rc \in Stale /\ GoodUpdates /= {}) =>
        LET u == CHOOSE i \in GoodUpdates : TRUE
        IN /\ Cardinality(GoodUpdates) = 1
           /\ IF Len(calls) = u
              THEN pc = "shotgun_get_actions_again"
              ELSE /\ Len(calls) = u + 1
                   /\ IsGet(calls[u + 1])
                   /\ (calls[u + 1].rc = 0 /\ WellFormed(calls[u + 1].output)) =>
                         /\ GroupEnded
                         /\ outcome[gi] = "ok"
                         /\ cache_content = calls[u + 1].output
                         /\ cache_content /= calls[1].output
                         /\ \A e \in ItemsOf(gi) :
                               /\ e \in DOMAIN commands_per_entity
                               /\ commands_per_entity[e] =
                                      CommandsOf(calls[u + 1].output)

\* not found, update with id fails, update without id succeeds, read succeeds
C11_Witness ==
    /\ Len(calls) = 4
    /\ calls[1].rc = _ERROR_CODE_CACHE_NOT_FOUND
    /\ IsNew(calls[2]) /\ calls[2].rc /= 0
    /\ IsOld(calls[3]) /\ calls[3].rc = 0
    /\ IsGet(calls[4]) /\ calls[4].rc = 0
    /\ outcome[gi] = "ok"
    /\ \A e \in ItemsOf(gi) : Len(commands_per_entity[e]) = 2

\* the call c is made on behalf of the i-th group
CallOfGroup(c, i) ==
    IF IsGet(c)
    THEN c.args = <<_get_cache_name(platform, per_entity_type[i].key),
                    _get_env_name(per_entity_type[i].key)>>
    ELSE c.args[1] = per_entity_type[i].key

\* C12: the groups are processed one after the other in input order and an
\* external call is made and has ended within one step: a step adds at most
\* one call, to the log of the group the loop is at, and the loop moves on
\* to the next group only when the current one has ended, all its calls
\* made.
C12_Sequential ==
    [][/\ gi' \in {gi, gi + 1}
       /\ gi' = gi + 1 =>
             /\ pc = "for"
             /\ Len(outcome) = gi
             /\ calls' = <<>>
             /\ outcome' = outcome
       /\ gi' = gi =>
             /\ calls' = calls \/ pc' = "return" \/
                   /\ Len(calls') = Len(calls) + 1
                   /\ SubSeq(calls', 1, Len(calls)) = calls
                   /\ CallOfGroup(calls'[Len(calls')], gi)
                   /\ Len(outcome) = gi - 1
             /\ pc' = "return" => calls' = calls
       /\ Len(outcome') \in {Len(outcome), Len(outcome) + 1}
       /\ Len(outcome') <= gi']_vars

\* the second group is at its third call, the first group has ended
C12_Witness ==
    /\ gi = 2
    /\ Len(outcome) = 1
    /\ Len(calls) = 3
    /\ pc = "shotgun_get_actions_again"

\* the platform name of the cache of every platform of NamePlatforms
PlatformNameOf ==
    [p \in NamePlatforms |->
        CASE p = <<"d","a","r","w","i","n">>     -> <<"m","a","c">>
          [] p = <<"w","i","n","3","2">>         -> <<"w","i","n","d","o","w","s">>
          [] p = <<"l","i","n","u","x","2">>     -> <<"l","i","n","u","x">>
          [] p = <<"l","i","n","u","x","3">>     -> <<"l","i","n","u","x">>
          [] p = <<"c","y","g","w","i","n">>     -> <<"c","y","g","w","i","n">>
          [] p = <<"s","u","n","o","s","5">>     -> <<"s","u","n","o","s","5">>]

\* name is raw with every upper-case letter replaced by its lower-case one
IsLowerOf(name, raw) ==
    /\ Len(name) = Len(raw)
    /\ \A i \in 1..Len(raw) :
          \/ \E k \in 1..26 : raw[i] = UpperCase[k] /\ name[i] = LowerCase[k]
          \/ /\ \A k \in 1..26 : raw[i] /= UpperCase[k]
             /\ name[i] = raw[i]

\* the cache file name a call passes
CacheNameArg(c) == IF IsGet(c) THEN c.args[1] ELSE c.args[2]

\* C13: the cache file name passed in every call of a group is
\* shotgun_<platform name>_<entity type>_detailed.txt in lower case, the
\* platform name being mac for darwin, windows for win32, linux for linux2
\* and linux3, and the platform identifier itself otherwise.
C13_CacheName ==
    \A i \in 1..Len(calls) :
        IsLowerOf(CacheNameArg(calls[i]),
                  <<"s","h","o","t","g","u","n","_">> \o PlatformNameOf[platform]
                      \o <<"_">> \o entities[gi][1]
                      \o <<"_","d","e","t","a","i","l","e","d",".","t","x","t">>)

\* on linux3 the cache of CustomEntity01 has been read, updated and read
C13_Witness ==
    /\ platform = <<"l","i","n","u","x","3">>
    /\ Len(calls) = 4
    /\ entities[gi][1] = CustomEntity01
    /\ calls[4].args[1] =
          <<"s","h","o","t","g","u","n","_","l","i","n","u","x","_",
            "c","u","s","t","o","m","e","n","t","i","t","y","0","1",
            "_","d","e","t","a","i","l","e","d",".","t","x","t">>

\* C14: run_interactive raises its TankError whatever the args are, without
\* any external call and without any entry in the mapping.
C14_InteractiveRejected ==
    /\ pc \in {"run_interactive", "raise"}
    /\ pc = "run_interactive" => ENABLED RunInteractive
    /\ pc = "raise" => error = ErrInteractive
    /\ calls = <<>>
    /\ commands_per_entity = <<>>
    /\ outcome = <<>>

\* run_interactive has raised on a command line of two words
C14_Witness ==
    /\ pc = "raise"
    /\ error = ErrInteractive
    /\ Len(args) = 2
    /\ calls = <<>>

\* the positions of the input list where a run of one type starts
RunStarts == {i \in 1..Len(entities) : i = 1 \/ entities[i][1] /= entities[i - 1][1]}

\* the position where the k-th run starts
RunStart(k) ==
    CHOOSE i \in RunStarts : Cardinality({j \in RunStarts : j < i}) = k - 1

\* the position where the k-th run ends
RunEnd(k) ==
    IF k = Cardinality(RunStarts) THEN Len(entities) ELSE RunStart(k + 1) - 1

\* C15: the loop goes through one group per maximal run of consecutive
\* entities of one type, however many distinct types there are: when it
\* returns it has processed as many groups as there are runs, every group
\* it is at is the next run of the input in input order, and the group
\* starts with its own shotgun_get_actions call for the type of that run.
C15_ContiguousRuns ==
    /\ gi <= NumRuns(entities)
    /\ Len(per_entity_type) = NumRuns(entities)
    /\ pc = "return" => gi = NumRuns(entities) /\ Len(outcome) = gi
    /\ gi >= 1 =>
          /\ entity_type = entities[RunStart(gi)][1]
          /\ entities_of_type = SubSeq(entities, RunStart(gi), RunEnd(gi))
          /\ pc /= "shotgun_get_actions" =>
                /\ calls /= <<>>
                /\ IsGet(calls[1])
                /\ calls[1].args[1] =
                      _get_cache_name(platform, entities[RunStart(gi)][1])

\* the list Shot, Task, Shot has been processed as three groups, the third
\* one reading the cache of Shot again
C15_Witness ==
    /\ Len(entities) = 3
    /\ entities[1][1] = Shot /\ entities[2][1] = Task /\ entities[3][1] = Shot
    /\ pc = "return"
    /\ gi = 3
    /\ Cardinality(TypesOf(entities)) = 2
    /\ calls[1].args[1] = _get_cache_name(platform, Shot)

\* the number a string of decimal digits writes
RECURSIVE DecimalValue(_)
DecimalValue(s) ==
    IF s = <<>> THEN 0
    ELSE 10 * DecimalValue(SubSeq(s, 1, Len(s) - 1))
             + (CHOOSE d \in 0..9 : Digits[d + 1] = s[Len(s)])

\* s is the decimal numeral of n
IsNumeralOf(s, n) ==
    /\ s /= <<>>
    /\ \A i \in 1..Len(s) : \E d \in 1..10 : Digits[d] = s[i]
    /\ Len(s) > 1 => s[1] /= "0"
    /\ DecimalValue(s) = n

\* C16: the second call of a group, the update in the new convention,
\* passes the type of the group, its cache file name and the id of the
\* first entity of the run; a third call that is an update, the old
\* convention, passes the type and the cache file name only; and the cache
\* file name of the updates is the one both shotgun_get_actions calls pass.
C16_CallArguments ==
    gi >= 1 =>
        LET first == entities[RunStart(gi)]
        IN \A i \in 1..Len(calls) :
              LET c == calls[i]
              IN /\ c.cmd = "shotgun_cache_actions" => i \in {2, 3}
                 /\ (i = 2 /\ c.cmd = "shotgun_cache_actions") =>
                       /\ Len(c.args) = 3
                       /\ c.args[1] = first[1]
                       /\ c.args[2] = calls[1].args[1]
                       /\ IsNumeralOf(c.args[3], first[2])
                 /\ (i = 3 /\ c.cmd = "shotgun_cache_actions") =>
                       c.args = <<first[1], calls[1].args[1]>>
                 /\ IsGet(c) =>
                       /\ Len(c.args) = 2
                       /\ c.args = calls[1].args
                 /\ i = 2 => c.cmd = "shotgun_cache_actions"

\* the group Shot 101, Shot 100 has made its four calls, the first update
\* with the id 101
C16_Witness ==
    /\ gi >= 1
    /\ Len(calls) = 4
    /\ entities_of_type = <<<<Shot, 101>>, <<Shot, 100>>>>
    /\ calls[2].args[3] = <<"1","0","1">>
    /\ Len(calls[3].args) = 2
    /\ calls[4].args[1] = calls[3].args[2]

\* get, new or old: which call c is
KindOf(c) ==
    IF IsGet(c) THEN "get" ELSE IF Len(c.args) = 3 THEN "new" ELSE "old"

KindsOf(cs) == [i \in 1..Len(cs) |-> KindOf(cs[i])]

\* the sequences of calls of one group that ran to its end
FullProtocols ==
    {<<"get", "new", "old", "get">>, <<"get", "new", "get">>}

\* the current group is still making calls
GroupActive == gi >= 1 /\ Len(outcome) < gi

\* an upper bound of the external calls still to be made
CallsLeft ==
    4 * (NumRuns(entities) - gi) + (IF GroupActive THEN 4 - Len(calls) ELSE 0)

\* an upper bound of the steps still to be taken
StepsLeft ==
    5 * (NumRuns(entities) - gi) + (IF GroupActive THEN 4 - Len(calls) ELSE 0)
        + (IF pc = "return" THEN 0 ELSE 1)

\* C17: the calls of a group are a beginning of get, new, old, get (the
\* old update left out when the new one succeeds), so at most four, two
\* reads and two updates; every step takes one from the steps left, every
\* call one from the calls left, of which there are four per run at the
\* start; and between two groups the loop can always go on or return.
C17_BoundedCalls ==
    /\ [](/\ \E full \in FullProtocols :
                /\ Len(calls) <= Len(full)
                /\ KindsOf(calls) = SubSeq(full, 1, Len(calls))
          /\ Len(calls) <= 4
          /\ Cardinality({i \in 1..Len(calls) : IsGet(calls[i])}) <= 2
          /\ Cardinality({i \in 1..Len(calls) : ~IsGet(calls[i])}) <= 2
          /\ CallsLeft >= 0
          /\ StepsLeft >= 0
          /\ gi = 0 => CallsLeft = 4 * NumRuns(entities)
          /\ pc = "for" => ENABLED (ForNext \/ Return)
          /\ pc \notin {"for", "return"} =>
                GroupActive /\ entities_of_type /= <<>>)
    /\ [][/\ StepsLeft' < StepsLeft
          /\ CallsLeft' <= CallsLeft
          /\ (calls' /= calls /\ calls' /= <<>>) => CallsLeft' < CallsLeft]_vars

\* run_noninteractive has returned from three runs, the last one with four
\* calls
C17_Witness ==
    /\ pc = "return"
    /\ gi = 3
    /\ KindsOf(calls) = <<"get", "new", "old", "get">>
    /\ CallsLeft = 0

\* the entities of the runs that have ended with parsed commands
EntitiesOfGoodRuns ==
    UNION {ItemsOf(k) : k \in {n \in 1..Len(outcome) : outcome[n] = "ok"}}

\* this step ends the current group with parsed commands
GroupSucceeds ==
    /\ Len(outcome') = Len(outcome) + 1
    /\ outcome'[Len(outcome')] = "ok"

\* C18: the keys of the mapping are input entities, namely the entities
\* of the runs that have ended with parsed commands; the step that ends a
\* run with parsed commands gives these commands to every entity of the
\* run, replacing an earlier entry, and leaves the other entries alone;
\* every other step, the end of a failed run included, leaves the mapping
\* as it is.
C18_LastSuccessWins ==
    /\ [](/\ DOMAIN commands_per_entity \subseteq InputEntities
          /\ DOMAIN commands_per_entity = EntitiesOfGoodRuns)
    /\ [][IF GroupSucceeds
          THEN /\ DOMAIN commands_per_entity' =
                      DOMAIN commands_per_entity \cup ItemsOf(gi)
               /\ \A e \in ItemsOf(gi) :
                      commands_per_entity'[e] = CommandsOf(cache_content')
               /\ \A e \in DOMAIN commands_per_entity \ ItemsOf(gi) :
                      commands_per_entity'[e] = commands_per_entity[e]
          ELSE commands_per_entity' = commands_per_entity]_vars

\* Shot 100 stands in the first and in the third run; the first run gave it
\* two commands, the third run has failed and the entry is still there
C18_Witness ==
    /\ Len(entities) = 3
    /\ entities[1] = <<Shot, 100>> /\ entities[3] = <<Shot, 100>>
    /\ entities[2][1] = Task
    /\ pc = "return"
    /\ outcome[1] = "ok" /\ outcome[3] = "failed"
    /\ <<Shot, 100>> \in DOMAIN commands_per_entity
    /\ Len(commands_per_entity[<<Shot, 100>>]) = 2

\* the current group has ended on a successful read of an empty cache
EmptyRead ==
    /\ GroupEnded
    /\ calls /= <<>>
    /\ IsGet(calls[Len(calls)])
    /\ calls[Len(calls)].rc = 0
    /\ calls[Len(calls)].output = <<>>

\* C19: a successful shotgun_get_actions with empty content ends the group
\* with success and every entity of the group is a key with the empty list
\* of commands; an entity none of whose runs has succeeded is not a key, so
\* an empty list never stands for a failure.
C19_EmptyCache ==
    /\ EmptyRead =>
          /\ outcome[gi] = "ok"
          /\ error = ""
          /\ \A e \in ItemsOf(gi) :
                /\ e \in DOMAIN commands_per_entity
                /\ commands_per_entity[e] = <<>>
    /\ \A e \in InputEntities \ EntitiesOfGoodRuns :
          e \notin DOMAIN commands_per_entity

\* the first run has read an empty cache on its second read and the second
\* run has failed: Shot 100 has the empty list, Task 5 is absent
C19_Witness ==
    /\ entities = <<<<Shot, 100>>, <<Task, 5>>>>
    /\ pc = "return"
    /\ outcome = <<"ok", "failed">>
    /\ <<Shot, 100>> \in DOMAIN commands_per_entity
    /\ commands_per_entity[<<Shot, 100>>] = <<>>
    /\ <<Task, 5>> \notin DOMAIN commands_per_entity

\* ------------------------------------------------------------------------
\* C20: MaxPubPublishFile.execute
\* ------------------------------------------------------------------------

\* no write permission for the owner, the group or the others
NotWritable(mode) ==
    /\ (mode \div 128) % 2 = 0
    /\ (mode \div 16) % 2 = 0
    /\ (mode \div 2) % 2 = 0

\* MaxPubPublishFile.execute has returned
HookReturned == syscalls /= <<>> /\ pc = "return"

\* os.chmod is called only as the second call, after a shutil.copy that
\* has not raised
ChmodAfterCopy ==
    \A i \in 1..Len(syscalls) :
        syscalls[i].call = "os.chmod" =>
            /\ i = 2
            /\ syscalls[1].call = "shutil.copy"
            /\ syscalls[1].ok

\* C20: execute copies first and sets the mode then; after a successful
\* call what is at the target path is a file with the content of the
\* source and without write permission; a copy that raises is followed by
\* no os.chmod.
C20_Original ==
    /\ ChmodAfterCopy
    /\ HookReturned =>
          /\ fs[target_path].kind = "file"
          /\ fs[target_path].content = fs[source_path].content
          /\ NotWritable(fs[target_path].mode)

\* the same with a target path that is not a directory, and what happens
\* with one that is: the copy is the file of the source's name in it and
\* keeps the mode of the source, the directory gets the mode 0444
HookOnFileAndDirectory ==
    /\ ChmodAfterCopy
    /\ HookReturned =>
          IF fs[target_path].kind = "file"
          THEN /\ fs[target_path].content = fs[source_path].content
               /\ fs[target_path].mode = Mode0444
          ELSE /\ fs[target_path] = Dir(Mode0444)
               /\ fs[join(target_path, basename(source_path))] =
                     fs[source_path]

TypeOK ==
    /\ pc \in {"for", "shotgun_get_actions", "shotgun_cache_actions",
               "shotgun_cache_actions_old", "shotgun_get_actions_again",
               "return", "raise", "run_interactive", "shutil.copy",
               "os.chmod"}
    /\ gi \in 0..Len(per_entity_type)
    /\ Len(calls) <= 4

====
